---- MODULE Spec2Model ----
(***************************************************************************)
(* A model of src/app.py: the key-layout function get_key_info, and the    *)
(* note-trigger state machine of the page's script (playNote, stopNote and *)
(* the mouse and keyboard listeners) together with the audio clock that    *)
(* fires the scheduled oscillator stops.                                   *)
(*                                                                         *)
(* Pixel values are integers: every product and sum the layout computes    *)
(* with the 0.6 ratios is an exactly representable whole number            *)
(* (40 * 0.6 = 24.0, 150 * 0.6 = 90.0, 24.0 / 2 = 12.0), so the ratios     *)
(* are kept in tenths.  Time is counted in ticks of 0.05 s, the volume in  *)
(* steps of 0.05 (the slider's step).                                      *)
(***************************************************************************)
EXTENDS Integers, Sequences, FiniteSets, TLC

VARIABLES
    start_midi_note,    \* the "Starting MIDI Note" input of get_key_info
    num_keys,           \* the "Number of Keys" input of get_key_info
    script,             \* "pending": inputs set, layout not yet computed; "done"; "failed"
    piano_keys,         \* the list get_key_info returned (app.py line 141)
    sustainEnabled,     \* let sustainEnabled
    activeOscillators,  \* the Map keyElement -> {oscillator, gainNode}, in insertion order
    active,             \* the key elements whose classList holds 'active'
    oscillators,        \* every oscillator created so far, in creation order
    lastEvent,          \* the DOM event the last step handled
    calls,              \* the playNote / stopNote calls that handler made, in order
    volume,             \* const volume, the "Volume" slider's value in steps of 0.05
    pointerHeld,        \* key elements with a mousedown not yet followed by mouseup/mouseleave
    keysHeld,           \* keyboard keys with a keydown not yet followed by their keyup
    observe             \* what a behaviour records besides the script's own state:
                        \* "gain" (each gainNode's schedule), "held" (the inputs held)

layoutVars == <<start_midi_note, num_keys, script, piano_keys>>
pageVars == <<sustainEnabled, activeOscillators, active, oscillators, lastEvent, calls,
              volume, pointerHeld, keysHeld, observe>>
vars == <<start_midi_note, num_keys, script, piano_keys,
          sustainEnabled, activeOscillators, active, oscillators, lastEvent, calls,
          volume, pointerHeld, keysHeld, observe>>

(***************************************************************************)
(* Configuration (app.py lines 5-15)                                       *)
(***************************************************************************)
DEFAULT_KEYS == 24
DEFAULT_START_NOTE == 60
KEY_WIDTH_PX == 40
KEY_HEIGHT_PX == 150
\* the ratios 0.6, in tenths
BLACK_KEY_WIDTH_RATIO == 6
BLACK_KEY_HEIGHT_RATIO == 6
offset_factor == 6

\* value * ratio for a ratio given in tenths
Times(value, tenths) == (value * tenths) \div 10

\* Python's None; the page writes it into data-keyboard-key as the text "None"
None == "None"

\* KEY_MAP.items(), in insertion order: <<keyboard key, position in range>>
KEY_MAP ==
    << <<"a", 0>>, <<"w", 1>>, <<"s", 2>>, <<"e", 3>>, <<"d", 4>>, <<"f", 5>>,
       <<"t", 6>>, <<"g", 7>>, <<"y", 8>>, <<"h", 9>>, <<"u", 10>>, <<"j", 11>>,
       <<"k", 12>>, <<"o", 13>>, <<"l", 14>>, <<"p", 15>>, <<";", 16>>, <<"'", 17>>,
       <<"z", 18>>, <<"x", 19>>, <<"c", 20>>, <<"v", 21>>, <<"b", 22>>, <<"n", 23>>,
       <<"m", 24>> >>

\* key_types: <<type, is_white_key>>, a 12-entry list
key_types ==
    << <<"white", TRUE>>,  <<"black", FALSE>>, <<"white", TRUE>>,  <<"black", FALSE>>,
       <<"white", TRUE>>,  <<"white", TRUE>>,  <<"black", FALSE>>, <<"white", TRUE>>,
       <<"black", FALSE>>, <<"white", TRUE>>,  <<"black", FALSE>>, <<"white", TRUE>> >>

(***************************************************************************)
(* get_frequency: 440 * 2 ** ((n - 69) / 12), kept exactly as the base and *)
(* the exponent in twelfths of an octave.                                  *)
(***************************************************************************)
get_frequency(midi_note_number) ==
    [base |-> 440, twelfths |-> midi_note_number - 69]

(***************************************************************************)
(* Python primitives the layout uses                                       *)
(***************************************************************************)
\* a range that runs up to and including n
range_inclusive(n) == [j \in 1..(n + 1) |-> j - 1]

\* a range that takes the magnitude of a negative n
range_of_magnitude(n) == [j \in 1..(IF n < 0 THEN 0 - n ELSE n) |-> j - 1]

\* range(n): the indices 0, 1, ..., n-1; empty when n <= 0
range(n) == [j \in 1..n |-> j - 1]

\* list[i] with Python's indexing: negative indices count from the end,
\* anything outside -len..len-1 raises IndexError
InRange(list, i) == (0 - Len(list)) <= i /\ i < Len(list)
Subscript(list, i) == IF i >= 0 THEN list[i + 1] ELSE list[Len(list) + i + 1]

Digit(d) == <<"0", "1", "2", "3", "4", "5", "6", "7", "8", "9">>[d + 1]

RECURSIVE Digits(_)
Digits(n) == IF n < 10 THEN <<Digit(n)>> ELSE Digits(n \div 10) \o <<Digit(n % 10)>>

\* str(n) of an int, as the sequence of its characters
str(n) == IF n < 0 THEN <<"-">> \o Digits(0 - n) ELSE Digits(n)

\* the first k of KEY_MAP.items() whose value is i, else None (lines 52-56)
RECURSIVE ScanKeyMap(_, _)
ScanKeyMap(j, i) ==
    IF j > Len(KEY_MAP) THEN None
    ELSE IF KEY_MAP[j][2] = i THEN KEY_MAP[j][1]
    ELSE ScanKeyMap(j + 1, i)

\* a lookup that takes the table's positions to start at 1
keyboard_key_of_one_based(i) == ScanKeyMap(1, i + 1)

keyboard_key_of(i) == ScanKeyMap(1, i)

(***************************************************************************)
(* get_key_info (lines 23-91)                                              *)
(***************************************************************************)
\* the semitone index taken with a remainder that keeps the dividend's sign
note_in_octave_idx_truncating(current_midi_note) ==
    IF current_midi_note - 21 >= 0
    THEN (current_midi_note - 21) % 12
    ELSE 0 - ((21 - current_midi_note) % 12)

\* line 47; Python's % takes the sign of the divisor
note_in_octave_idx_of(current_midi_note) == (current_midi_note - 21) % 12

\* a label whose octave number lacks the "- 1"
white_label_octave_off(current_midi_note, note_in_octave_idx) ==
    IF note_in_octave_idx = 0
    THEN <<"C">> \o str(current_midi_note \div 12)
    ELSE <<>>

\* the label of a white key (line 65)
white_label(current_midi_note, note_in_octave_idx) ==
    IF note_in_octave_idx = 0
    THEN <<"C">> \o str((current_midi_note \div 12) - 1)
    ELSE <<>>

\* an x taken after white_key_count was incremented
white_x_position_after_increment(white_key_count) ==
    (white_key_count + 1) * KEY_WIDTH_PX

\* the x of a white key (line 59)
white_x_position(white_key_count) == white_key_count * KEY_WIDTH_PX

\* the x of a black key (lines 74-75)
black_x_position(white_key_count, width) ==
    (white_key_count - 1) * KEY_WIDTH_PX
        + Times(KEY_WIDTH_PX, offset_factor) - (width \div 2)

\* the dictionary appended for a white key (lines 58-65, 77-89)
WhiteKey(i, current_midi_note, note_in_octave_idx, key_type_info, white_key_count) ==
    [ midi_note    |-> current_midi_note,
      frequency    |-> get_frequency(current_midi_note),
      type         |-> key_type_info[1],
      x            |-> white_x_position(white_key_count),
      y            |-> 0,
      width        |-> KEY_WIDTH_PX,
      height       |-> KEY_HEIGHT_PX,
      color        |-> "#FFFFFF",
      z_index      |-> 1,
      label        |-> white_label(current_midi_note, note_in_octave_idx),
      keyboard_key |-> keyboard_key_of(i) ]

\* the dictionary appended for a black key (lines 66-75, 77-89)
BlackKey(i, current_midi_note, key_type_info, white_key_count) ==
    [ midi_note    |-> current_midi_note,
      frequency    |-> get_frequency(current_midi_note),
      type         |-> key_type_info[1],
      x            |-> black_x_position(white_key_count,
                                        Times(KEY_WIDTH_PX, BLACK_KEY_WIDTH_RATIO)),
      y            |-> 0,
      width        |-> Times(KEY_WIDTH_PX, BLACK_KEY_WIDTH_RATIO),
      height       |-> Times(KEY_HEIGHT_PX, BLACK_KEY_HEIGHT_RATIO),
      color        |-> "#333333",
      z_index      |-> 2,
      label        |-> <<>>,
      keyboard_key |-> keyboard_key_of(i) ]

\* the for loop (lines 45-89) over the remaining indices `todo`; the result is
\* the list built and the exception raised, if any
RECURSIVE Loop(_, _, _, _)
Loop(todo, start, keys, white_key_count) ==
    IF todo = <<>> THEN [keys |-> keys, raised |-> None]
    ELSE
        LET i == Head(todo)
            current_midi_note == start + i
            note_in_octave_idx == note_in_octave_idx_of(current_midi_note)
        IN  IF ~InRange(key_types, note_in_octave_idx)
            THEN [keys |-> keys, raised |-> "IndexError"]
            ELSE
                LET key_type_info == Subscript(key_types, note_in_octave_idx)
                    is_white_key == key_type_info[2]
                IN  IF is_white_key
                    THEN Loop(Tail(todo), start,
                              Append(keys, WhiteKey(i, current_midi_note, note_in_octave_idx,
                                                    key_type_info, white_key_count)),
                              white_key_count + 1)
                    ELSE Loop(Tail(todo), start,
                              Append(keys, BlackKey(i, current_midi_note,
                                                    key_type_info, white_key_count)),
                              white_key_count)

get_key_info(start, n) == Loop(range(n), start, <<>>, 0)

\* lines 142-143
total_white_keys(keys) == Cardinality({k \in 1..Len(keys) : keys[k].type = "white"})
piano_width(keys) == total_white_keys(keys) * KEY_WIDTH_PX

(***************************************************************************)
(* The script run: the sliders supply the two inputs and line 141 calls    *)
(* get_key_info on them.                                                   *)
(***************************************************************************)
\* the slider ranges (lines 106-107 and 116-117)
MIN_KEYS == 12
MAX_KEYS == 30
MIN_START_NOTE == 21
MAX_START_NOTE == 96

\* how far beyond the slider ranges the inputs of get_key_info are drawn
NoteSlack == 24
KeySlack == 3

StartNotes == (MIN_START_NOTE - NoteSlack)..(MAX_START_NOTE + NoteSlack)
KeyCounts == (0 - KeySlack)..(MAX_KEYS + KeySlack)

(***************************************************************************)
(* The page script (lines 227-332)                                         *)
(***************************************************************************)
\* ADSR envelope parameters, in ticks of 0.05 s (lines 240-242)
attackTime == 1
decayTime == 4
releaseTime == 6
\* sustainLevel 0.7, in tenths (line 243)
sustainLevel == 7

\* the volume slider (lines 131-134), in steps of 0.05: its minimum 0.0 and
\* its default 0.5
MIN_VOLUME == 0
DEFAULT_VOLUME == 10
Volumes == {MIN_VOLUME, DEFAULT_VOLUME}

\* keyMap.get(...) found nothing / no key element
undefined == 0

\* the most oscillators a run of the model creates
MaxOscillators == 2
\* the key elements the mouse and keyboard events of the model aim at: the
\* first MaxTargetKeys keys of the page
MaxTargetKeys == 2

TargetKeys == {k \in 1..Len(piano_keys) : k <= MaxTargetKeys}

\* String.prototype.toLowerCase on a one-character key name
UpperCase == <<"A", "B", "C", "D", "E", "F", "G", "H", "I", "J", "K", "L", "M",
               "N", "O", "P", "Q", "R", "S", "T", "U", "V", "W", "X", "Y", "Z">>
LowerCase == <<"a", "b", "c", "d", "e", "f", "g", "h", "i", "j", "k", "l", "m",
               "n", "o", "p", "q", "r", "s", "t", "u", "v", "w", "x", "y", "z">>
toLowerCase(ch) ==
    IF \E j \in 1..26 : UpperCase[j] = ch
    THEN LowerCase[CHOOSE j \in 1..26 : UpperCase[j] = ch]
    ELSE ch
toUpperCase(ch) ==
    IF \E j \in 1..26 : LowerCase[j] = ch
    THEN UpperCase[CHOOSE j \in 1..26 : LowerCase[j] = ch]
    ELSE ch

\* the keyboard events of the model, as <<event.code, event.key>> records: the
\* space bar, the key bound to each target key element, the first of them
\* with shift held as well, and a key bound to nothing.  The listeners read
\* event.code only to compare it with 'Space', so every other key has the
\* code "Key".
SpaceEvent == [code |-> "Space", key |-> " "]
UnboundEvent == [code |-> "Key", key |-> "q"]
KeyboardEvents ==
    {SpaceEvent, UnboundEvent}
        \cup {[code |-> "Key", key |-> piano_keys[k].keyboard_key] : k \in TargetKeys}
        \cup {[code |-> "Key", key |-> toUpperCase(piano_keys[k].keyboard_key)] :
                k \in TargetKeys \cap {1}}

\* keyMap (lines 296-302): every key element is entered under its
\* data-keyboard-key text (never empty, "None" included), a later element
\* replacing an earlier one; get returns undefined for a text never entered
keyMap_get(name) ==
    LET elements == {k \in 1..Len(piano_keys) : piano_keys[k].keyboard_key = name}
    IN  IF elements = {} THEN undefined
        ELSE CHOOSE k \in elements : \A other \in elements : other <= k

\* Map operations on activeOscillators, a sequence of [key, oscillator] entries
Map_has(map, keyElement) == \E j \in 1..Len(map) : map[j].key = keyElement
Map_get(map, keyElement) ==
    map[CHOOSE j \in 1..Len(map) : map[j].key = keyElement].oscillator
Map_delete(map, keyElement) == SelectSeq(map, LAMBDA entry : entry.key # keyElement)
Map_keys(map) == {map[j].key : j \in 1..Len(map)}

\* the script's state, as the record the handlers below transform
State ==
    [ sustainEnabled    |-> sustainEnabled,
      activeOscillators |-> activeOscillators,
      active            |-> active,
      oscillators       |-> oscillators,
      calls             |-> <<>>,
      raised            |-> None ]

\* playNote's early return without the activeOscillators.has test
playNote_returns_early_unguarded(js, keyElement) == keyElement = undefined

\* line 246: the early return of playNote
playNote_returns_early(js, keyElement) ==
    keyElement = undefined \/ Map_has(js.activeOscillators, keyElement)

\* an entry of `calls`: the function called, its argument, and what the call
\* did ("created" a voice, "released" one, "returned" without effect, or "threw")
Call(fn, keyElement, effect) == [fn |-> fn, key |-> keyElement, effect |-> effect]
Log(js, fn, keyElement, effect) ==
    [js EXCEPT !.calls = Append(@, Call(fn, keyElement, effect))]

\* a scheduled AudioParam event: its kind, its target value (as the
\* expression the script passes) and the ticks from now to its time
GainEvent(kind, value, in) == [kind |-> kind, value |-> value, in |-> in]
NoGainEvent == GainEvent("none", "none", 0)

\* a gainNode's gain AudioParam: the events scheduled at or after the current
\* time, the last event whose time has been reached, and how many events
\* cancelScheduledValues has removed
NewGain == [events |-> <<>>, reached |-> NoGainEvent, cancelled |-> 0]

\* AudioParam.setValueAtTime / linearRampToValueAtTime /
\* exponentialRampToValueAtTime: an event at the current time is reached at once
Schedule(gain, event) ==
    [gain EXCEPT !.events = Append(@, event),
                 !.reached = IF event.in = 0 THEN event ELSE @]

\* AudioParam.cancelScheduledValues(currentTime): every event at or after the
\* current time is removed
CancelScheduledValues(gain) ==
    [gain EXCEPT !.events = <<>>, !.cancelled = @ + Len(gain.events)]

\* lines 255-257: the attack and decay ramps
attack_decay(gain) ==
    Schedule(Schedule(Schedule(gain,
        GainEvent("setValueAtTime", "0", 0)),
        GainEvent("linearRampToValueAtTime", "volume", attackTime)),
        GainEvent("exponentialRampToValueAtTime", "volume * sustainLevel",
                  attackTime + decayTime))

\* exponentialRampToValueAtTime throws a RangeError for a target value of 0;
\* volume * sustainLevel (line 257) is 0 exactly when volume is 0
exponentialRamp_throws(value) == value = 0

\* lines 248-263: a new oscillator, started, and stored in the map
create(js, keyElement) ==
    [js EXCEPT
        !.oscillators = Append(@, [key |-> keyElement, state |-> "started",
                                   stopIn |-> 0, stops |-> 0,
                                   gain |-> IF "gain" \in observe
                                            THEN attack_decay(NewGain) ELSE NewGain]),
        !.activeOscillators =
            Append(@, [key |-> keyElement, oscillator |-> Len(js.oscillators) + 1])]

\* playNote (lines 245-264); the RangeError of line 257 leaves the function
\* before oscillator.start() and activeOscillators.set
playNote(js, keyElement) ==
    IF playNote_returns_early(js, keyElement)
    THEN Log(js, "playNote", keyElement, "returned")
    ELSE IF exponentialRamp_throws(volume * sustainLevel)
    THEN [Log(js, "playNote", keyElement, "threw") EXCEPT !.raised = "RangeError"]
    ELSE Log(create(js, keyElement), "playNote", keyElement, "created")

\* line 267: the early return of stopNote
stopNote_returns_early(js, keyElement) ==
    keyElement = undefined \/ ~Map_has(js.activeOscillators, keyElement)

\* the release ramp scheduled without cancelScheduledValues
release_ramp_uncancelled(gain) ==
    Schedule(Schedule(gain,
        GainEvent("setValueAtTime", "gainNode.gain.value", 0)),
        GainEvent("linearRampToValueAtTime", "0", releaseTime))

\* lines 271-273: cancelScheduledValues, the snapshot of the current gain and
\* the linear ramp to 0
release_ramp(gain) ==
    Schedule(Schedule(CancelScheduledValues(gain),
        GainEvent("setValueAtTime", "gainNode.gain.value", 0)),
        GainEvent("linearRampToValueAtTime", "0", releaseTime))

\* the release without activeOscillators.delete
release_keeps_entry(js, keyElement) ==
    LET o == Map_get(js.activeOscillators, keyElement)
    IN  [js EXCEPT
            !.oscillators[o] = [@ EXCEPT !.state = "stopping",
                                         !.stopIn = releaseTime,
                                         !.stops = @ + 1,
                                         !.gain = IF "gain" \in observe
                                                  THEN release_ramp(@) ELSE @]]

\* lines 271-275: the release ramp, oscillator.stop(currentTime + releaseTime)
\* and activeOscillators.delete
release(js, keyElement) ==
    LET o == Map_get(js.activeOscillators, keyElement)
    IN  [js EXCEPT
            !.oscillators[o] = [@ EXCEPT !.state = "stopping",
                                         !.stopIn = releaseTime,
                                         !.stops = @ + 1,
                                         !.gain = IF "gain" \in observe
                                                  THEN release_ramp(@) ELSE @],
            !.activeOscillators = Map_delete(@, keyElement)]

\* stopNote without the sustainEnabled test of line 270
stopNote_ignoring_sustain(js, keyElement) ==
    IF stopNote_returns_early(js, keyElement)
    THEN Log(js, "stopNote", keyElement, "returned")
    ELSE Log(release(js, keyElement), "stopNote", keyElement, "released")

\* stopNote (lines 266-277)
stopNote(js, keyElement) ==
    IF stopNote_returns_early(js, keyElement)
    THEN Log(js, "stopNote", keyElement, "returned")
    ELSE IF ~js.sustainEnabled
    THEN Log(release(js, keyElement), "stopNote", keyElement, "released")
    ELSE Log(js, "stopNote", keyElement, "returned")

classList_add(js, keyElement) == [js EXCEPT !.active = @ \cup {keyElement}]
classList_remove(js, keyElement) == [js EXCEPT !.active = @ \ {keyElement}]

\* the mousedown listener (lines 281-284); an exception thrown by playNote
\* ends the listener
mousedown(js, key) ==
    LET played == playNote(js, key)
    IN  IF played.raised # None THEN played ELSE classList_add(played, key)

\* the mouseup and mouseleave listeners (lines 285-292)
mouseup(js, key) ==
    LET stopped == stopNote(js, key)
    IN  IF ~stopped.sustainEnabled THEN classList_remove(stopped, key) ELSE stopped

\* a page without a mouseleave listener
mouseleave_unheard(js, key) == js

mouseleave(js, key) ==
    LET stopped == stopNote(js, key)
    IN  IF ~stopped.sustainEnabled THEN classList_remove(stopped, key) ELSE stopped

\* the keydown listener (lines 304-314)
keydown(js, event) ==
    IF event.code = "Space" THEN [js EXCEPT !.sustainEnabled = TRUE]
    ELSE
        LET keyElement == keyMap_get(toLowerCase(event.key))
        IN  IF keyElement # undefined
            THEN LET played == playNote(js, keyElement)
                 IN  IF played.raised # None THEN played
                     ELSE classList_add(played, keyElement)
            ELSE js

\* a forEach that steps over the entry following each one it deletes
RECURSIVE forEach_stop_skipping(_, _)
forEach_stop_skipping(js, visited) ==
    LET rest == SelectSeq(js.activeOscillators, LAMBDA entry : entry.key \notin visited)
    IN  IF rest = <<>> THEN js
        ELSE
            LET keyElement == Head(rest).key
                skipped == IF Len(rest) > 1 THEN {rest[2].key} ELSE {}
            IN  forEach_stop_skipping(
                    classList_remove(stopNote(js, keyElement), keyElement),
                    visited \cup {keyElement} \cup skipped)

\* activeOscillators.forEach of lines 320-323: the entries are visited in
\* insertion order, the callback deleting from the map as it goes
RECURSIVE forEach_stop(_, _)
forEach_stop(js, visited) ==
    LET rest == SelectSeq(js.activeOscillators, LAMBDA entry : entry.key \notin visited)
    IN  IF rest = <<>> THEN js
        ELSE
            LET keyElement == Head(rest).key
            IN  forEach_stop(classList_remove(stopNote(js, keyElement), keyElement),
                             visited \cup {keyElement})

\* a keyup listener that flushes on every key, not testing event.code
keyup_flushing_on_any_key(js, event) ==
    forEach_stop([js EXCEPT !.sustainEnabled = FALSE], {})

\* the keyup listener (lines 316-331)
keyup(js, event) ==
    IF event.code = "Space"
    THEN forEach_stop([js EXCEPT !.sustainEnabled = FALSE], {})
    ELSE
        LET keyElement == keyMap_get(toLowerCase(event.key))
        IN  IF keyElement # undefined /\ ~js.sustainEnabled
            THEN classList_remove(stopNote(js, keyElement), keyElement)
            ELSE js

(***************************************************************************)
(* Actions                                                                 *)
(***************************************************************************)
NoEvent == [type |-> "none", target |-> undefined, code |-> "", key |-> ""]
MouseEvent(type, k) == [type |-> type, target |-> k, code |-> "", key |-> ""]
KeyEvent(type, event) ==
    [type |-> type, target |-> undefined, code |-> event.code, key |-> event.key]

\* the handler's result becomes the script's state
Commit(js, event) ==
    /\ Len(js.oscillators) <= MaxOscillators
    /\ sustainEnabled' = js.sustainEnabled
    /\ activeOscillators' = js.activeOscillators
    /\ active' = js.active
    /\ oscillators' = js.oscillators
    /\ calls' = js.calls
    /\ lastEvent' = event
    /\ UNCHANGED <<volume, observe>>
    /\ UNCHANGED layoutVars

\* the inputs held after an event, recorded where "held" is observed
Hold(pointers, keys) ==
    IF "held" \in observe
    THEN pointerHeld' = pointers /\ keysHeld' = keys
    ELSE UNCHANGED <<pointerHeld, keysHeld>>

\* the keyboard key an event belongs to, whatever the shift state
PhysicalKey(event) == toLowerCase(event.key)

MouseDown(k) ==
    /\ Commit(mousedown(State, k), MouseEvent("mousedown", k))
    /\ Hold(pointerHeld \cup {k}, keysHeld)
MouseUp(k) ==
    /\ Commit(mouseup(State, k), MouseEvent("mouseup", k))
    /\ Hold(pointerHeld \ {k}, keysHeld)
MouseLeave(k) ==
    /\ Commit(mouseleave(State, k), MouseEvent("mouseleave", k))
    /\ Hold(pointerHeld \ {k}, keysHeld)
KeyDown(event) ==
    /\ Commit(keydown(State, event), KeyEvent("keydown", event))
    /\ Hold(pointerHeld, keysHeld \cup {PhysicalKey(event)})
KeyUp(event) ==
    /\ Commit(keyup(State, event), KeyEvent("keyup", event))
    /\ Hold(pointerHeld, keysHeld \ {PhysicalKey(event)})

\* one tick of a gain AudioParam: the events whose time was the current time
\* are past, the events whose time is now reached take effect
tick_gain(gain) ==
    LET pending == SelectSeq(gain.events, LAMBDA event : event.in > 0)
        moved == [j \in 1..Len(pending) |-> [pending[j] EXCEPT !.in = @ - 1]]
        due == SelectSeq(moved, LAMBDA event : event.in = 0)
    IN  [gain EXCEPT !.events = moved,
                     !.reached = IF due = <<>> THEN @ ELSE due[Len(due)]]

\* an audio clock that lets a scheduled stop time pass
tick_passing_stop(o) == [o EXCEPT !.gain = tick_gain(@)]

\* the audio clock advances by one tick; an oscillator whose scheduled stop
\* time is reached stops
tick(o) ==
    LET moved == [o EXCEPT !.gain = tick_gain(@)]
    IN  IF o.state = "stopping"
        THEN IF o.stopIn = 1 THEN [moved EXCEPT !.state = "stopped", !.stopIn = 0]
             ELSE [moved EXCEPT !.stopIn = @ - 1]
        ELSE moved

Tick ==
    /\ \E o \in 1..Len(oscillators) :
            oscillators[o].state = "stopping" \/ oscillators[o].gain.events # <<>>
    /\ oscillators' = [o \in 1..Len(oscillators) |-> tick(oscillators[o])]
    /\ lastEvent' = [NoEvent EXCEPT !.type = "tick"]
    /\ calls' = <<>>
    /\ UNCHANGED <<sustainEnabled, activeOscillators, active>>
    /\ UNCHANGED <<volume, pointerHeld, keysHeld, observe>>
    /\ UNCHANGED layoutVars

\* the script state of a freshly loaded page (lines 236-237)
PageInit ==
    /\ sustainEnabled = FALSE
    /\ activeOscillators = <<>>
    /\ active = {}
    /\ oscillators = <<>>
    /\ lastEvent = NoEvent
    /\ calls = <<>>
    /\ pointerHeld = {}
    /\ keysHeld = {}

\* the page as rendered: the layout of line 141 and the volume of line 234
PageRendered ==
    /\ start_midi_note = DEFAULT_START_NOTE
    /\ num_keys = MIN_KEYS
    /\ script = "done"
    /\ piano_keys = get_key_info(DEFAULT_START_NOTE, MIN_KEYS).keys
    /\ volume \in Volumes
    /\ PageInit

\* the page rendered with the start note at its default and the number of keys
\* at the slider's minimum (lines 106, 118)
Init ==
    /\ PageRendered
    /\ observe = {}

Next ==
    \/ \E k \in TargetKeys : MouseDown(k)
    \/ \E k \in TargetKeys : MouseUp(k)
    \/ \E k \in TargetKeys : MouseLeave(k)
    \/ \E event \in KeyboardEvents : KeyDown(event)
    \/ \E event \in KeyboardEvents : KeyUp(event)
    \/ Tick

Spec == Init /\ [][Next]_vars

\* the same page, each gainNode's schedule recorded as well
AudioInit ==
    /\ PageRendered
    /\ observe = {"gain"}

AudioSpec == AudioInit /\ [][Next]_vars

\* the same page, the held inputs recorded as well
HeldInit ==
    /\ PageRendered
    /\ observe = {"held"}

HeldSpec == HeldInit /\ [][Next]_vars

\* the same page with the audio clock running on: a scheduled stop time is
\* reached
LiveSpec == HeldInit /\ [][Next]_vars /\ WF_vars(Tick)

(***************************************************************************)
(* The layout on its own: get_key_info applied to inputs drawn from        *)
(* StartNotes and KeyCounts.                                               *)
(***************************************************************************)
LayoutInit ==
    /\ start_midi_note \in StartNotes
    /\ num_keys \in KeyCounts
    /\ script = "pending"
    /\ piano_keys = <<>>
    /\ volume = DEFAULT_VOLUME
    /\ observe = {}
    /\ PageInit

\* line 141
RunScript ==
    /\ script = "pending"
    /\ LET result == get_key_info(start_midi_note, num_keys)
       IN  /\ piano_keys' = result.keys
           /\ script' = IF result.raised = None THEN "done" ELSE "failed"
    /\ UNCHANGED <<start_midi_note, num_keys>>
    /\ UNCHANGED pageVars

\* a changed input (one slider moved) reruns the script from the top
ChangeInputs(start, n) ==
    /\ script # "pending"
    /\ (start = start_midi_note) # (n = num_keys)
    /\ start_midi_note' = start
    /\ num_keys' = n
    /\ script' = "pending"
    /\ piano_keys' = <<>>
    /\ UNCHANGED pageVars

LayoutNext ==
    \/ RunScript
    \/ \E start \in StartNotes, n \in KeyCounts : ChangeInputs(start, n)

LayoutSpec == LayoutInit /\ [][LayoutNext]_vars

(***************************************************************************)
(* Properties of the note-trigger state machine (specification Spec)       *)
(***************************************************************************)
KeyElements == 1..Len(piano_keys)

\* the calls of fn on keyElement in a handler's log, and those with an effect
CallsOf(log, fn, keyElement) ==
    {j \in 1..Len(log) : log[j].fn = fn /\ log[j].key = keyElement}
CallsWith(log, fn, keyElement, effect) ==
    {j \in CallsOf(log, fn, keyElement) : log[j].effect = effect}

IsSpaceUp(event) == event.type = "keyup" /\ event.code = "Space"
\* a mouseup or mouseleave, or the keyup of any key but the space bar
IsKeyRelease(event) ==
    \/ event.type \in {"mouseup", "mouseleave"}
    \/ event.type = "keyup" /\ event.code # "Space"
IsPress(event) == event.type \in {"mousedown", "keydown"}

\* the oscillators of keyElement in the given states
OscillatorsOf(oscs, keyElement, states) ==
    {o \in 1..Len(oscs) : oscs[o].key = keyElement /\ oscs[o].state \in states}

\* C1: the keyup of the space bar, in any reachable state, sets sustainEnabled
\* to false and calls stopNote exactly once, with effect, for every key element
\* marked active at that moment and for no other; afterwards the voice map is
\* empty and no key element is marked active.
C1_SustainUpFlushes ==
    [][ IsSpaceUp(lastEvent') =>
            /\ sustainEnabled' = FALSE
            /\ \A k \in KeyElements :
                /\ Cardinality(CallsOf(calls', "stopNote", k))
                        = (IF k \in active THEN 1 ELSE 0)
                /\ CallsWith(calls', "stopNote", k, "released")
                        = CallsOf(calls', "stopNote", k)
                /\ k \in active =>
                        LET o == Map_get(activeOscillators, k)
                        IN  /\ oscillators'[o].state = "stopping"
                            /\ oscillators'[o].stops = oscillators[o].stops + 1
            /\ activeOscillators' = <<>>
            /\ active' = {} ]_vars

\* the space bar has just gone up and two key elements were released by it
C1_Witness ==
    /\ IsSpaceUp(lastEvent)
    /\ Len(calls) = 2
    /\ calls[1].key # calls[2].key
    /\ \A j \in 1..2 : calls[j].fn = "stopNote" /\ calls[j].effect = "released"
    /\ activeOscillators = <<>>

\* C2: while sustainEnabled is true, a mouseup, a mouseleave and the keyup of
\* a bound key change neither the voice map nor the active marks nor any
\* oscillator; and a key element with a voice keeps the voice and its active
\* mark over every step but the keyup of the space bar.
C2_SustainSuppressesRelease ==
    [][ sustainEnabled =>
            /\ IsKeyRelease(lastEvent') =>
                    /\ activeOscillators' = activeOscillators
                    /\ active' = active
                    /\ oscillators' = oscillators
            /\ ~IsSpaceUp(lastEvent') =>
                    \A k \in KeyElements :
                        Map_has(activeOscillators, k) /\ k \in active =>
                            /\ Map_has(activeOscillators', k)
                            /\ Map_get(activeOscillators', k) = Map_get(activeOscillators, k)
                            /\ k \in active' ]_vars

\* under sustain, a mouseup on a sounding key element called stopNote and the
\* voice is still in the map, its oscillator not scheduled to stop
C2_Witness ==
    /\ sustainEnabled
    /\ lastEvent.type = "mouseup"
    /\ calls = <<Call("stopNote", lastEvent.target, "returned")>>
    /\ Map_has(activeOscillators, lastEvent.target)
    /\ oscillators[Map_get(activeOscillators, lastEvent.target)].state = "started"
    /\ lastEvent.target \in active

\* C3: a mousedown on a key element, or the keydown of its bound key, while a
\* voice exists for it creates no oscillator and leaves the voice map as it
\* was, with exactly one entry for the key element.
C3_PressIdempotent ==
    [][ \A k \in KeyElements :
            (/\ IsPress(lastEvent')
             /\ CallsOf(calls', "playNote", k) # {}
             /\ Map_has(activeOscillators, k)) =>
                /\ oscillators' = oscillators
                /\ activeOscillators' = activeOscillators
                /\ Cardinality({j \in 1..Len(activeOscillators') :
                                    activeOscillators'[j].key = k}) = 1
                /\ Cardinality(OscillatorsOf(oscillators', k, {"started"})) = 1 ]_vars

\* a repeated keydown of a bound key found the voice already there
C3_Witness ==
    /\ lastEvent.type = "keydown"
    /\ Len(calls) = 1
    /\ calls[1].fn = "playNote"
    /\ calls[1].effect = "returned"
    /\ Map_has(activeOscillators, calls[1].key)

\* C4: when stopNote is called with sustain off on a key element that has a
\* voice, the voice map no longer holds the key element once the event has
\* been handled, while the oscillator is not stopped yet: its stop lies
\* releaseTime ahead.
C4_ReleaseRemovesVoiceAtOnce ==
    [][ \A k \in KeyElements :
            (/\ CallsOf(calls', "stopNote", k) # {}
             /\ ~sustainEnabled'
             /\ Map_has(activeOscillators, k)) =>
                LET o == Map_get(activeOscillators, k)
                IN  /\ ~Map_has(activeOscillators', k)
                    /\ oscillators'[o].state = "stopping"
                    /\ oscillators'[o].stopIn = releaseTime
                    /\ releaseTime > 0 ]_vars

\* a mouseup has just released a voice: the key element has left the map and
\* its oscillator is still sounding
C4_Witness ==
    /\ lastEvent.type = "mouseup"
    /\ ~sustainEnabled
    /\ calls = <<Call("stopNote", lastEvent.target, "released")>>
    /\ ~Map_has(activeOscillators, lastEvent.target)
    /\ \E o \in OscillatorsOf(oscillators, lastEvent.target, {"stopping"}) :
            oscillators[o].stopIn = releaseTime

\* C5, as claimed: in every reachable state every key element has at most one
\* oscillator that has been started and has not stopped yet.
C5_AtMostOneSoundingOscillator ==
    \A k \in KeyElements :
        Cardinality(OscillatorsOf(oscillators, k, {"started", "stopping"})) <= 1

\* C5, amended: in every reachable state the voice map holds at most one entry
\* per key element, and every key element has at most one oscillator that has
\* been started and not yet been released, namely the one of its map entry;
\* oscillators released earlier may still be sounding beside it.
C5_AtMostOneVoice ==
    \A k \in KeyElements :
        /\ Cardinality({j \in 1..Len(activeOscillators) :
                            activeOscillators[j].key = k}) <= 1
        /\ Cardinality(OscillatorsOf(oscillators, k, {"started"})) <= 1
        /\ OscillatorsOf(oscillators, k, {"started"})
                = {activeOscillators[j].oscillator :
                        j \in {i \in 1..Len(activeOscillators) :
                                    activeOscillators[i].key = k}}

\* a key element pressed again while its released oscillator is still sounding
C5_Witness ==
    \E k \in KeyElements :
        /\ Cardinality(OscillatorsOf(oscillators, k, {"started"})) = 1
        /\ Cardinality(OscillatorsOf(oscillators, k, {"stopping"})) = 1

(***************************************************************************)
(* Properties of the layout (specification LayoutSpec)                     *)
(***************************************************************************)
\* the number of white keys before position k of a layout
WhitesBefore(keys, k) ==
    Cardinality({j \in 1..(k - 1) : keys[j].type = "white"})

\* the int a sequence of characters spells, the inverse of str
DigitValue(ch) == CHOOSE d \in 0..9 : Digit(d) = ch
RECURSIVE ParseDigits(_, _)
ParseDigits(chars, acc) ==
    IF chars = <<>> THEN acc
    ELSE ParseDigits(Tail(chars), acc * 10 + DigitValue(Head(chars)))
IsDigits(chars) ==
    /\ chars # <<>>
    /\ \A j \in 1..Len(chars) : \E d \in 0..9 : Digit(d) = chars[j]
IsInt(chars) ==
    IF chars # <<>> /\ Head(chars) = "-" THEN IsDigits(Tail(chars)) ELSE IsDigits(chars)
ParseInt(chars) ==
    IF Head(chars) = "-" THEN 0 - ParseDigits(Tail(chars), 0) ELSE ParseDigits(chars, 0)

\* the i-th key (0-based) is the note start_midi_note + i
NotesAscendFromStart ==
    \A k \in 1..Len(piano_keys) : piano_keys[k].midi_note = start_midi_note + (k - 1)

\* C6, as claimed: for all integers start_midi_note and num_keys the layout has
\* exactly num_keys keys, the i-th of them the note start_midi_note + i.
C6_LengthIsKeyCount ==
    script # "pending" =>
        /\ script = "done"
        /\ Len(piano_keys) = num_keys
        /\ NotesAscendFromStart

\* C6, amended: for all integers start_midi_note and all num_keys >= 0 the
\* layout has exactly num_keys keys (and none for a negative num_keys), the
\* i-th of them the note start_midi_note + i, hence strictly ascending notes.
C6_LengthIsKeyCountOrZero ==
    script # "pending" =>
        /\ script = "done"
        /\ Len(piano_keys) = (IF num_keys >= 0 THEN num_keys ELSE 0)
        /\ NotesAscendFromStart
        /\ \A k \in 1..(Len(piano_keys) - 1) :
                piano_keys[k].midi_note < piano_keys[k + 1].midi_note

\* a layout of more keys than the slider allows, starting below note 0
C6_Witness ==
    /\ script = "done"
    /\ num_keys > MAX_KEYS
    /\ Len(piano_keys) = num_keys
    /\ start_midi_note < 0
    /\ piano_keys[num_keys].midi_note = start_midi_note + num_keys - 1

\* C7: the white keys tile the surface from the left without gaps or
\* overlaps: the N-th white key (0-based, among the white keys) has
\* x = N * KEY_WIDTH_PX, width KEY_WIDTH_PX and y = 0, and the layout's total
\* width is the number of white keys times KEY_WIDTH_PX.
C7_WhiteKeysTile ==
    script = "done" =>
        /\ \A k \in 1..Len(piano_keys) :
                piano_keys[k].type = "white" =>
                    /\ piano_keys[k].x = WhitesBefore(piano_keys, k) * KEY_WIDTH_PX
                    /\ piano_keys[k].width = KEY_WIDTH_PX
                    /\ piano_keys[k].y = 0
                    /\ piano_keys[k].x + piano_keys[k].width <= piano_width(piano_keys)
        /\ \A px \in 0..(piano_width(piano_keys) - 1) :
                Cardinality({k \in 1..Len(piano_keys) :
                                /\ piano_keys[k].type = "white"
                                /\ piano_keys[k].x <= px
                                /\ px < piano_keys[k].x + piano_keys[k].width}) = 1
        /\ piano_width(piano_keys)
                = WhitesBefore(piano_keys, Len(piano_keys) + 1) * KEY_WIDTH_PX

\* two octaves' worth of white keys, the range starting on a black key
C7_Witness ==
    /\ script = "done"
    /\ total_white_keys(piano_keys) >= 14
    /\ piano_keys[1].type = "black"
    /\ piano_keys[Len(piano_keys)].x = (total_white_keys(piano_keys) - 1) * KEY_WIDTH_PX

C9_BlackKeyStraddlesBoundary ==
    script = "done" =>
        \A k \in 1..Len(piano_keys) :
            piano_keys[k].type = "black" =>
                LET boundary == WhitesBefore(piano_keys, k) * KEY_WIDTH_PX
                IN  /\ piano_keys[k].x < boundary
                    /\ boundary < piano_keys[k].x + piano_keys[k].width

\* C10: for every start_midi_note and every num_keys below 1 the layout is the
\* empty list, and no exception is raised.
C10_EmptyBelowOne ==
    (script # "pending" /\ num_keys < 1) =>
        /\ script = "done"
        /\ piano_keys = <<>>

\* the layout was computed for a negative num_keys
C10_Witness ==
    /\ script = "done"
    /\ num_keys < 0
    /\ piano_keys = <<>>

\* C17: for every start_midi_note, those below 21 and the negative ones
\* included, and every index i of the range, the semitone index the layout
\* computes for start_midi_note + i is one of 0..11, so the lookup in the
\* 12-entry table raises nothing, and keys 12 notes apart have the same type.
C17_SemitoneIndexInRange ==
    /\ script # "failed"
    /\ \A i \in 0..(num_keys - 1) :
            /\ note_in_octave_idx_of(start_midi_note + i) \in 0..11
            /\ note_in_octave_idx_of(start_midi_note + i + 12)
                    = note_in_octave_idx_of(start_midi_note + i)
    /\ script = "done" =>
            \A k \in 1..Len(piano_keys) :
                /\ piano_keys[k].type
                        = key_types[note_in_octave_idx_of(piano_keys[k].midi_note) + 1][1]
                /\ k + 12 <= Len(piano_keys) =>
                        piano_keys[k + 12].type = piano_keys[k].type

\* a layout that starts below note 0, runs past note 21 and holds keys 12
\* notes apart
C17_Witness ==
    /\ script = "done"
    /\ start_midi_note < 0
    /\ Len(piano_keys) > 24
    /\ piano_keys[Len(piano_keys)].midi_note > 21

\* the binding table of the interface: position in range -> input key
BindingTable ==
    <<"a", "w", "s", "e", "d", "f", "t", "g", "y", "h", "u", "j", "k",
      "o", "l", "p", ";", "'", "z", "x", "c", "v", "b", "n", "m">>

\* C18: the key at position i (0-based) of a layout has the i-th entry of the
\* 25-entry binding table as its keyboard key when i <= 24 and none when
\* i >= 25, whatever the start note; no two keys of a layout share a
\* keyboard key.
C18_BindingByPosition ==
    script = "done" =>
        /\ Len(BindingTable) = 25
        /\ \A k \in 1..Len(piano_keys) :
                piano_keys[k].keyboard_key
                    = (IF k - 1 <= 24 THEN BindingTable[k] ELSE None)
        /\ \A k, other \in 1..Len(piano_keys) :
                (/\ k # other
                 /\ piano_keys[k].keyboard_key # None) =>
                    piano_keys[k].keyboard_key # piano_keys[other].keyboard_key

\* a layout longer than the table: position 24 is bound to "m", position 25
\* and the last one to nothing
C18_Witness ==
    /\ script = "done"
    /\ Len(piano_keys) > 26
    /\ piano_keys[25].keyboard_key = "m"
    /\ piano_keys[26].keyboard_key = None
    /\ piano_keys[Len(piano_keys)].keyboard_key = None

InSliderRanges ==
    /\ start_midi_note \in MIN_START_NOTE..MAX_START_NOTE
    /\ num_keys \in MIN_KEYS..MAX_KEYS

\* C19: for start_midi_note in 21..96 and num_keys in 12..30 every key's
\* rectangle lies inside the render surface horizontally:
\* 0 <= x and x + width <= total_white_keys * KEY_WIDTH_PX.
C19_KeysInsideSurface ==
    (script = "done" /\ InSliderRanges) =>
        \A k \in 1..Len(piano_keys) :
            /\ 0 <= piano_keys[k].x
            /\ piano_keys[k].x + piano_keys[k].width <= piano_width(piano_keys)

\* C20: for start_midi_note in 21..96 and num_keys in 12..30 every key whose
\* midi_note is a multiple of 12 is white and labelled "C" followed by
\* midi_note / 12 - 1, and no other key has a label.
C20_CLabelsOnMultiplesOf12 ==
    (script = "done" /\ InSliderRanges) =>
        \A k \in 1..Len(piano_keys) :
            IF piano_keys[k].midi_note % 12 = 0
            THEN /\ piano_keys[k].type = "white"
                 /\ piano_keys[k].label
                        = <<"C">> \o str((piano_keys[k].midi_note \div 12) - 1)
            ELSE piano_keys[k].label = <<>>

(***************************************************************************)
(* Further properties of the note-trigger state machine                    *)
(***************************************************************************)
\* C12: stopNote on a key element without a voice changes nothing and
\* schedules nothing; and over any sequence of events the stop of every
\* oscillator ever created is scheduled at most once.
C12_ReleaseWithoutVoiceIsNoOp ==
    [][ /\ \A k \in KeyElements :
                (/\ CallsOf(calls', "stopNote", k) # {}
                 /\ ~Map_has(activeOscillators, k)) =>
                    /\ oscillators' = oscillators
                    /\ activeOscillators' = activeOscillators
                    /\ sustainEnabled' = sustainEnabled
                    /\ CallsWith(calls', "stopNote", k, "returned")
                            = CallsOf(calls', "stopNote", k)
        /\ \A o \in 1..Len(oscillators') : oscillators'[o].stops <= 1 ]_vars

\* a second mouseup on a key element whose voice was released before: stopNote
\* was called and returned, the released oscillator still sounding
C12_Witness ==
    /\ lastEvent.type = "mouseup"
    /\ ~sustainEnabled
    /\ calls = <<Call("stopNote", lastEvent.target, "returned")>>
    /\ \E o \in OscillatorsOf(oscillators, lastEvent.target, {"stopping"}) :
            oscillators[o].stops = 1 /\ oscillators[o].stopIn = releaseTime

\* C13: in every reachable state a key element is marked active if and only
\* if the voice map holds a voice for it; and every event that calls
\* playNote on a key element leaves it with a voice and marked active.
C13_ActiveIffVoice ==
    /\ active = Map_keys(activeOscillators)
    /\ IsPress(lastEvent) =>
            \A k \in KeyElements :
                CallsOf(calls, "playNote", k) # {} =>
                    /\ Map_has(activeOscillators, k)
                    /\ k \in active

\* the key element an event is aimed at: the target of a mouse event, the key
\* element bound to the key of a keyboard event
IsAimedAt(event, k) ==
    \/ event.target = k
    \/ /\ event.type \in {"keydown", "keyup"}
       /\ event.code # "Space"
       /\ piano_keys[k].keyboard_key = toLowerCase(event.key)

\* the voice of k, as the set of oscillators the map holds for it
VoiceOf(map, k) == {map[j].oscillator : j \in {i \in 1..Len(map) : map[i].key = k}}

\* C16: the voice of a key element is removed only by a mouseup, mouseleave or
\* keyup aimed at it or by the keyup of the space bar, and created only by a
\* mousedown or keydown aimed at it; every event aimed elsewhere, every
\* keydown of the space bar and every event of an unbound key leaves its
\* voice and its active mark as they were.
C16_VoiceMapFrame ==
    [][ \A k \in KeyElements :
            /\ (Map_has(activeOscillators, k) /\ ~Map_has(activeOscillators', k)) =>
                    \/ IsKeyRelease(lastEvent') /\ IsAimedAt(lastEvent', k)
                    \/ IsSpaceUp(lastEvent')
            /\ (~Map_has(activeOscillators, k) /\ Map_has(activeOscillators', k)) =>
                    IsPress(lastEvent') /\ IsAimedAt(lastEvent', k)
            /\ (~IsAimedAt(lastEvent', k) /\ ~IsSpaceUp(lastEvent')) =>
                    /\ VoiceOf(activeOscillators', k) = VoiceOf(activeOscillators, k)
                    /\ (k \in active') = (k \in active) ]_vars

\* the keyup of an unbound key was handled while a key element had a voice
\* and its active mark, both of which it still has
C16_Witness ==
    /\ lastEvent.type = "keyup"
    /\ lastEvent.key = UnboundEvent.key
    /\ ~sustainEnabled
    /\ activeOscillators # <<>>
    /\ active # {}

(***************************************************************************)
(* The gain envelope at release                                            *)
(***************************************************************************)
ReleaseSnapshot == GainEvent("setValueAtTime", "gainNode.gain.value", 0)
ReleaseRampToZero(in) == GainEvent("linearRampToValueAtTime", "0", in)
IsReleaseEvent(event) ==
    \/ event = ReleaseSnapshot
    \/ \E in \in 0..releaseTime : event = ReleaseRampToZero(in)

\* C11: a release cancels the attack and decay ramps still pending before it
\* schedules the release ramp: right after the release the only events on the
\* gain are the snapshot of the current value and the linear ramp to 0 at
\* releaseTime ahead, from then on no attack or decay event is pending or
\* takes effect, and when the oscillator's stop fires the gain has reached
\* the end of the ramp to 0.
C11_ReleaseCancelsAttackDecay ==
    \A o \in 1..Len(oscillators) :
        LET osc == oscillators[o]
        IN  osc.state \in {"stopping", "stopped"} =>
                /\ \A j \in 1..Len(osc.gain.events) : IsReleaseEvent(osc.gain.events[j])
                /\ IsReleaseEvent(osc.gain.reached)
                /\ (osc.state = "stopping" /\ osc.stopIn = releaseTime) =>
                        osc.gain.events = <<ReleaseSnapshot, ReleaseRampToZero(releaseTime)>>
                /\ osc.state = "stopped" => osc.gain.reached = ReleaseRampToZero(0)

\* an oscillator released before its attack ended (all three events of
\* playNote were cancelled) has stopped
C11_Witness ==
    \E o \in 1..Len(oscillators) :
        /\ oscillators[o].state = "stopped"
        /\ oscillators[o].gain.cancelled = 3
        /\ oscillators[o].gain.reached = ReleaseRampToZero(0)

(***************************************************************************)
(* Held inputs                                                             *)
(***************************************************************************)
\* the key elements some held input is on: the pointer, or a keyboard key
\* bound to the element
HeldKeyElements ==
    pointerHeld \cup {k \in KeyElements : \E id \in keysHeld : keyMap_get(id) = k}

\* C14: while sustain is off every key element with a voice is held by at
\* least one input (a mousedown not yet followed by mouseup or mouseleave, or
\* a keydown of its bound key not yet followed by the keyup); so with sustain
\* off and every input released the voice map is empty.
C14_NoStuckNotes ==
    ~sustainEnabled =>
        /\ Map_keys(activeOscillators) \subseteq HeldKeyElements
        /\ (pointerHeld = {} /\ keysHeld = {}) => activeOscillators = <<>>

\* sustain off, two voices, one held by the pointer alone and one by a
\* keyboard key alone
C14_Witness ==
    /\ ~sustainEnabled
    /\ Len(activeOscillators) = 2
    /\ \E k \in Map_keys(activeOscillators) :
            k \in pointerHeld /\ \A id \in keysHeld : keyMap_get(id) # k
    /\ \E k \in Map_keys(activeOscillators) :
            k \notin pointerHeld /\ \E id \in keysHeld : keyMap_get(id) = k

\* the keyboard keys of the events handled on the rendered page
RenderedKeyIds ==
    {PhysicalKey(SpaceEvent), PhysicalKey(UnboundEvent)}
        \cup {get_key_info(DEFAULT_START_NOTE, MIN_KEYS).keys[k].keyboard_key :
                k \in 1..MaxTargetKeys}

\* every input held down is let go again: every mousedown is followed by a
\* mouseup or mouseleave on the key element, every keydown by the keyup of
\* the key, and sustain is released
InputsLetGo ==
    /\ \A k \in 1..MaxTargetKeys : []<>(k \notin pointerHeld)
    /\ \A id \in RenderedKeyIds : []<>(id \notin keysHeld)
    /\ []<>(~sustainEnabled)

\* C15: every oscillator that was started is eventually stopped, the audio
\* clock running on and every held input (pointer, keyboard key, space bar)
\* being let go eventually.
C15_EveryOscillatorStops ==
    InputsLetGo =>
        \A o \in 1..MaxOscillators :
            (Len(oscillators) >= o)
                ~> (Len(oscillators) >= o /\ oscillators[o].state = "stopped")

\* every input is let go, sustain is off, and each of the MaxOscillators
\* oscillators the page created has stopped
C15_Witness ==
    /\ Len(oscillators) = MaxOscillators
    /\ \A o \in 1..Len(oscillators) : oscillators[o].state = "stopped"
    /\ pointerHeld = {}
    /\ keysHeld = {}
    /\ ~sustainEnabled

====
